---- MODULE Spec2Model ----
(***************************************************************************)
(* Model of the conversation-turn orchestrator of the telemedicine         *)
(* simulator (src/streamlit_app.py, src/models/user.py):                   *)
(*   - get_next_api_key: round-robin over API_KEYS through the cursor file *)
(*     api_key_index.txt (read, select, write; no lock);                   *)
(*   - safe_request: the tenacity retry wrapper around the model call;     *)
(*   - the Streamlit pages Home -> Chat -> Result kept in session_state;   *)
(*   - add_user: the insert guarded by the unique e-mail column.           *)
(* Texts (file content, typed names) are sequences of one-character        *)
(* strings so that int(), str() and strip() are computed, not assumed.     *)
(***************************************************************************)
EXTENDS Integers, Sequences, FiniteSets, TLC

\* ---------------------------------------------------------------- bounds
NumSessions == 3        \* browser sessions that may exist
MaxKeys == 3            \* longest short credential list drawn in SpecRotate
LongKeys == 11          \* the long credential list of SpecRotate: cursors of two digits
MaxSubmits == 11        \* script runs the user starts that make a call, all sessions
                        \* together: chat prompts submitted and evaluations started
                        \* again (retry button or rerun)
MaxFailedTurns == 2     \* chat turns that go wrong, all sessions together: the call
                        \* fails or a save_message raises, in any order

\* ------------------------------------------------------ program constants
MaxAttempts == 5        \* stop_after_attempt(5)
WaitMultiplier == 2     \* wait_exponential(multiplier=2, ...)
WaitMin == 5            \* wait_exponential(..., min=5, ...)
WaitMax == 30           \* wait_exponential(..., max=30)
ExpBase == 2            \* wait_exponential's default exp_base
ContextSize == 10       \* chat_memory.messages[-10:]
EndThreshold == 20      \* len(chat_memory.messages) >= 20
MaxStrDigits == 4300    \* int(): sys.int_info.default_max_str_digits
SmallChunk == 8192      \* f.read(): the least a read buffer grows by
GrowthPad == 256        \* f.read(): a full buffer grows by its size plus this
LargeRead == 65536      \* f.read(): above this size a full buffer grows by
GrowthDivisor == 8      \*   an eighth of its size

Sessions == 1..NumSessions

\* ------------------------------------------------------------------ texts
DigitChars == <<"0", "1", "2", "3", "4", "5", "6", "7", "8", "9">>

IsDigit(c) == \E i \in 1..10 : DigitChars[i] = c

DigitVal(c) == (CHOOSE i \in 1..10 : DigitChars[i] = c) - 1

\* The characters str.strip() and int() drop (str.isspace), as far as a
\* TLA+ string can hold them: tab, line feed, vertical tab, form feed,
\* carriage return, the separators U+001C..U+001F, space, NEL (U+0085) and
\* the no-break space (U+00A0).  Python also drops the Unicode spaces above
\* U+00FF (U+1680, U+2000..U+200A, U+2028, U+2029, U+202F, U+205F, U+3000);
\* they cannot be written in a string of this language and are left out.
VT == ""

NBSP == " "

Separators == {"", "", "", ""}

SpaceChars ==
    {"\t", "\n", VT, "\f", "\r", " ", "", NBSP} \cup Separators

IsSpace(c) == c \in SpaceChars

RECURSIVE LStrip(_)
LStrip(s) == IF s # <<>> /\ IsSpace(Head(s)) THEN LStrip(Tail(s)) ELSE s

RECURSIVE RStrip(_)
RStrip(s) ==
    IF s # <<>> /\ IsSpace(s[Len(s)]) THEN RStrip(SubSeq(s, 1, Len(s) - 1)) ELSE s

\* str.strip()
Strip(s) == RStrip(LStrip(s))

\* int() turns the white space outside ASCII into spaces and then skips C's
\* isspace characters at both ends: the separators U+001C..U+001F, which
\* strip() drops, are not skipped (int("1\x1c") raises ValueError).
IsIntSpace(c) == IsSpace(c) /\ c \notin Separators

RECURSIVE IntLStrip(_)
IntLStrip(s) == IF s # <<>> /\ IsIntSpace(Head(s)) THEN IntLStrip(Tail(s)) ELSE s

RECURSIVE IntRStrip(_)
IntRStrip(s) ==
    IF s # <<>> /\ IsIntSpace(s[Len(s)]) THEN IntRStrip(SubSeq(s, 1, Len(s) - 1))
    ELSE s

IntStrip(s) == IntRStrip(IntLStrip(s))

RECURSIVE DigitsVal(_)
DigitsVal(s) ==
    IF s = <<>> THEN 0
    ELSE 10 * DigitsVal(SubSeq(s, 1, Len(s) - 1)) + DigitVal(s[Len(s)])

\* The digits of an integer text: one or more decimal digits, with single
\* underscores allowed between two digits (int("1_0") = 10).  The decimal
\* digits of other scripts, which int() accepts too, lie above U+00FF.
DigitGroup(body) ==
    /\ body # <<>>
    /\ \A i \in 1..Len(body) :
          \/ IsDigit(body[i])
          \/ /\ body[i] = "_"
             /\ i > 1
             /\ i < Len(body)
             /\ IsDigit(body[i - 1])
             /\ IsDigit(body[i + 1])

\* int(text): surrounding white space is dropped, one sign is allowed, then
\* a digit group of at most 4300 digits (leading zeros counted, underscores
\* not); anything else raises ValueError (ok = FALSE).
IntParse(text) ==
    LET t == IntStrip(text)
        signed == t # <<>> /\ Head(t) \in {"+", "-"}
        body == IF signed THEN Tail(t) ELSE t
        digits == SelectSeq(body, IsDigit)
    IN  IF ~DigitGroup(body) \/ Len(digits) > MaxStrDigits
        THEN [ok |-> FALSE, val |-> 0]
        ELSE [ok |-> TRUE,
              val |-> IF signed /\ Head(t) = "-" THEN 0 - DigitsVal(digits)
                      ELSE DigitsVal(digits)]

RECURSIVE NatStr(_)
NatStr(n) ==
    IF n < 10 THEN <<DigitChars[n + 1]>>
    ELSE NatStr(n \div 10) \o <<DigitChars[(n % 10) + 1]>>

\* str(n)
IntStr(n) == IF n < 0 THEN <<"-">> \o NatStr(0 - n) ELSE NatStr(n)

\* ------------------------------------------------------- credential rotor
NoFile == [exists |-> FALSE, text |-> <<>>]

FileOf(text) == [exists |-> TRUE, text |-> text]

NoKey == "none"

\* The text f.read() returns for the characters read from a file opened in
\* text mode (line 45): "\r\n" and a lone "\r" arrive as "\n".
TextRead(t) ==
    LET marked == [i \in 1..Len(t) |->
                     IF t[i] = "\r" THEN "\n"
                     ELSE IF t[i] = "\n" /\ i > 1 /\ t[i - 1] = "\r" THEN "dropped"
                     ELSE t[i]]
    IN  SelectSeq(marked, LAMBDA c : c # "dropped")

\* The file is read as bytes and decoded as UTF-8 (open() in text mode with
\* the encoding of the locale).  A byte is written as the character of the
\* same number: a character up to U+007F is one byte, itself; a character
\* U+0080..U+00FF is two bytes, C2 or C3 and then 80..BF.
HighChars ==
    <<
      "", "", "", "", "", "", "", "", "", "", "", "", "", "", "", "",
      "", "", "", "", "", "", "", "", "", "", "", "", "", "", "", "",
      " ", "¡", "¢", "£", "¤", "¥", "¦", "§", "¨", "©", "ª", "«", "¬", "­", "®", "¯",
      "°", "±", "²", "³", "´", "µ", "¶", "·", "¸", "¹", "º", "»", "¼", "½", "¾", "¿",
      "À", "Á", "Â", "Ã", "Ä", "Å", "Æ", "Ç", "È", "É", "Ê", "Ë", "Ì", "Í", "Î", "Ï",
      "Ð", "Ñ", "Ò", "Ó", "Ô", "Õ", "Ö", "×", "Ø", "Ù", "Ú", "Û", "Ü", "Ý", "Þ", "ß",
      "à", "á", "â", "ã", "ä", "å", "æ", "ç", "è", "é", "ê", "ë", "ì", "í", "î", "ï",
      "ð", "ñ", "ò", "ó", "ô", "õ", "ö", "÷", "ø", "ù", "ú", "û", "ü", "ý", "þ", "ÿ">>

HighSet == {HighChars[k] : k \in 1..Len(HighChars)}

IsHigh(c) == c \in HighSet

HighIndex(c) == CHOOSE k \in 1..Len(HighChars) : HighChars[k] = c

HalfHigh == Len(HighChars) \div 2

\* the bytes C2 and C3
LeadLow == "Â"

LeadHigh == "Ã"

LeadByte(c) == IF HighIndex(c) <= HalfHigh THEN LeadLow ELSE LeadHigh

ContByte(c) == HighChars[((HighIndex(c) - 1) % HalfHigh) + 1]

IsLead(b) == b \in {LeadLow, LeadHigh}

IsCont(b) == IsHigh(b) /\ HighIndex(b) <= HalfHigh

\* text.encode("utf-8")
Utf8(text) ==
    LET slots == [i \in 1..(2 * Len(text)) |->
                    LET c == text[(i + 1) \div 2]
                    IN  IF ~IsHigh(c) THEN (IF i % 2 = 1 THEN <<c>> ELSE <<>>)
                        ELSE IF i % 2 = 1 THEN <<LeadByte(c)>> ELSE <<ContByte(c)>>]
        kept == SelectSeq(slots, LAMBDA b : b # <<>>)
    IN  [i \in 1..Len(kept) |-> kept[i][1]]

\* bytes.decode("utf-8") with errors="strict", for the bytes Utf8 produces:
\* every C2/C3 is followed by a byte 80..BF and every byte 80..BF follows
\* one; a sequence cut in two is a UnicodeDecodeError, which is a
\* ValueError.  (Bytes C4 and above are written by no text of this model.)
Utf8Valid(bytes) ==
    \A i \in 1..Len(bytes) :
        /\ IsLead(bytes[i]) => i < Len(bytes) /\ IsCont(bytes[i + 1])
        /\ IsCont(bytes[i]) => i > 1 /\ IsLead(bytes[i - 1])
        /\ IsHigh(bytes[i]) => IsLead(bytes[i]) \/ IsCont(bytes[i])

Utf8Text(bytes) ==
    LET slots == [i \in 1..Len(bytes) |->
                    IF IsCont(bytes[i]) THEN <<>>
                    ELSE IF IsLead(bytes[i])
                         THEN <<HighChars[HighIndex(bytes[i + 1]) +
                                  (IF bytes[i] = LeadHigh THEN HalfHigh ELSE 0)]>>
                         ELSE <<bytes[i]>>]
        kept == SelectSeq(slots, LAMBDA c : c # <<>>)
    IN  [i \in 1..Len(kept) |-> kept[i][1]]

\* f.read() (line 46) reads the whole file through FileIO.readall: the size
\* of the file is taken once (fstat) and the buffer is made one byte larger,
\* or SmallChunk bytes for an empty file; then the file is read piece by
\* piece, each read filling what is free in the buffer, until a read returns
\* nothing.
BufferSize(f) ==
    IF Len(Utf8(f.text)) > 0 THEN Len(Utf8(f.text)) + 1 ELSE SmallChunk

\* new_buffersize: the size of a buffer that is full with currentsize bytes
NewBufferSize(currentsize) ==
    LET addend == IF currentsize > LargeRead THEN currentsize \div GrowthDivisor
                  ELSE GrowthPad + currentsize
    IN  currentsize + (IF addend < SmallChunk THEN SmallChunk ELSE addend)

\* the size of the buffer at a read with bytes_read bytes in it
RoomAt(bufsize, bytes_read) ==
    IF bytes_read >= bufsize THEN NewBufferSize(bytes_read) ELSE bufsize

\* One read: the bytes of the file as it is now, from the position reached
\* (the number of bytes read so far), at most free of them.
PieceAt(f, bytes_read, free) ==
    LET bytes == Utf8(f.text)
        upto == IF Len(bytes) < bytes_read + free THEN Len(bytes) ELSE bytes_read + free
    IN  IF Len(bytes) <= bytes_read THEN <<>> ELSE SubSeq(bytes, bytes_read + 1, upto)

ReadIndexAlwaysDefault(f) == 0

\* lines 43-48: the index read from the cursor file, 0 when the file is
\* missing (FileNotFoundError) or its content is no integer (ValueError)
ReadIndex(f) ==
    IF ~f.exists THEN 0
    ELSE LET p == IntParse(TextRead(f.text)) IN IF p.ok THEN p.val ELSE 0

\* lines 46-48 on the bytes f.read() collected: decoded, then as above
ReadBytes(bytes) ==
    IF Utf8Valid(bytes) THEN ReadIndex(FileOf(Utf8Text(bytes))) ELSE 0

\* line 51: API_KEYS[index] with Python's list indexing: 0..L-1 from the
\* front, -L..-1 from the back, IndexError otherwise
KeyInRange(keys, index) == index >= 0 - Len(keys) /\ index < Len(keys)

KeyAt(keys, index) ==
    IF index >= 0 THEN keys[index + 1] ELSE keys[Len(keys) + index + 1]

NextIndexNoWrap(keys, index) == index + 1

\* line 54
NextIndex(keys, index) == (index + 1) % Len(keys)

\* line 57: open(..., "w") creates the file or empties it
Truncated == FileOf(<<>>)

\* line 58 and the close of the with block: the text reaches the file
WriteIndex(next_index) == FileOf(IntStr(next_index))

\* The same write on the file f as it is by then: the text goes to position
\* 0 and what f holds beyond the text's length stays (the file was emptied
\* at line 57, but another session may have written since).
WriteOver(f, next_index) ==
    LET text == IntStr(next_index)
    IN  FileOf(IF Len(f.text) <= Len(text) THEN text
               ELSE text \o SubSeq(f.text, Len(text) + 1, Len(f.text)))

\* Lines 51-60 with the index already read and the cursor file f as it is
\* now: IndexError at line 51 leaves the file alone, otherwise the next
\* index is written and the key returned.
KeyStepResetting(keys, index, f) ==
    IF KeyInRange(keys, index)
    THEN [raised |-> "none", key |-> KeyAt(keys, index),
          file |-> WriteIndex(NextIndex(keys, index))]
    ELSE [raised |-> "IndexError", key |-> NoKey, file |-> WriteIndex(0)]

KeyStep(keys, index, f) ==
    IF KeyInRange(keys, index)
    THEN [raised |-> "none", key |-> KeyAt(keys, index),
          file |-> WriteIndex(NextIndex(keys, index))]
    ELSE [raised |-> "IndexError", key |-> NoKey, file |-> f]

\* get_next_api_key run without interruption on cursor file f
GetNextApiKey(keys, f) == KeyStep(keys, ReadIndex(f), f)

\* ---------------------------------------------------------------- invoker
Outcomes == {"Success", "RateLimitError", "APIError", "Other"}

\* retry_if_exception_type((RateLimitError, APIError))
Retryable(outcome) == outcome \in {"RateLimitError", "APIError"}

RECURSIVE Pow(_, _)
Pow(b, e) == IF e = 0 THEN 1 ELSE b * Pow(b, e - 1)

Min2(a, b) == IF a < b THEN a ELSE b

Max2(a, b) == IF a > b THEN a ELSE b

WaitAfterUnclamped(n) == Min2(WaitMultiplier * Pow(ExpBase, n - 1), WaitMax)

\* wait_exponential(multiplier=2, min=5, max=30) after attempt number n:
\* max(max(0, min), min(multiplier * exp_base ** (n - 1), max))
WaitAfter(n) ==
    Max2(Max2(0, WaitMin), Min2(WaitMultiplier * Pow(ExpBase, n - 1), WaitMax))

StopAfterLate(n) == n > MaxAttempts

\* stop_after_attempt(5)
StopAfter(n) == n >= MaxAttempts

\* One attempt of safe_request, numbered n, whose remote call ends in
\* outcome: the value is returned, the exception is retried after a wait,
\* or it leaves safe_request (RetryError once the attempts are used up, the
\* exception itself when it is not one of the retried types).
InvokerStep(n, outcome) ==
    IF outcome = "Success" THEN [status |-> "returned", wait |-> 0]
    ELSE IF ~Retryable(outcome) THEN [status |-> "raised", wait |-> 0]
    ELSE IF StopAfter(n) THEN [status |-> "RetryError", wait |-> 0]
    ELSE [status |-> "retry", wait |-> WaitAfter(n)]

\* safe_request over a whole sequence of remote outcomes, starting with
\* attempt n: the final status, the attempts made and the waits slept.
RECURSIVE SafeRequestFrom(_, _, _)
SafeRequestFrom(n, outcomes, slept) ==
    IF outcomes = <<>>
    THEN [status |-> "running", attempts |-> n - 1, waits |-> slept, cause |-> "none"]
    ELSE LET st == InvokerStep(n, Head(outcomes))
         IN  IF st.status = "retry"
             THEN SafeRequestFrom(n + 1, Tail(outcomes), Append(slept, st.wait))
             ELSE [status |-> st.status, attempts |-> n, waits |-> slept,
                   cause |-> Head(outcomes)]

SafeRequest(outcomes) == SafeRequestFrom(1, outcomes, <<>>)

RECURSIVE SumSeq(_)
SumSeq(s) == IF s = <<>> THEN 0 ELSE Head(s) + SumSeq(Tail(s))

\* ----------------------------------------------------- conversation window
HumanMessage(n) == [role |-> "human", content |-> n]

AIMessage(n) == [role |-> "ai", content |-> n]

SystemMessage == [role |-> "system", content |-> 0]

AIMessages(msgs) == {i \in 1..Len(msgs) : msgs[i].role = "ai"}

FirstK(msgs, k) == IF Len(msgs) <= k THEN msgs ELSE SubSeq(msgs, 1, k)

\* messages[-k:] for k >= 1
LastK(msgs, k) ==
    IF Len(msgs) <= k THEN msgs ELSE SubSeq(msgs, Len(msgs) - k + 1, Len(msgs))

\* lines 242-243
ChatContext(msgs) == <<SystemMessage>> \o LastK(msgs, ContextSize)

\* lines 278-309: the evaluation prompt, every message as a
\* "Student: ..." or "Patient: ..." line under the fixed rubric
EvalLine(msg) ==
    [role |-> IF msg.role = "human" THEN "Student" ELSE "Patient",
     content |-> msg.content]

EvaluationPromptSuffix(msgs) ==
    <<[role |-> "rubric", content |-> 0]>> \o
    [i \in 1..Len(LastK(msgs, ContextSize)) |-> EvalLine(LastK(msgs, ContextSize)[i])]

EvaluationPrompt(msgs) ==
    <<[role |-> "rubric", content |-> 0]>> \o [i \in 1..Len(msgs) |-> EvalLine(msgs[i])]

\* ------------------------------------------------------------------ users
EmailSuffix == <<"@test.cop">>

\* line 206
UserEmail(user_name) == Strip(user_name) \o EmailSuffix

\* line 207
User(user_name, user_email) == [name |-> user_name, email |-> user_email]

\* the unique e-mail column
EmailTaken(db, email) == \E i \in 1..Len(db) : db[i].email = email

\* What the database does with the commit of add_user, apart from the
\* unique column: it works, or it fails for a reason of its own (a locked
\* database, a lost connection).
CommitOutcomes == {"ok", "OperationalError"}

AddUserAlways(db, new_user, commit) ==
    IF commit # "ok"
    THEN [users |-> db, raised |-> commit, logged |-> commit]
    ELSE [users |-> Append(db, new_user), raised |-> "none", logged |-> "none"]

\* add_user (user.py 41-54): IntegrityError from the unique column is
\* rolled back and logged and add_user returns normally (46-48); any other
\* exception of the commit is rolled back, logged and raised again (49-52).
AddUser(db, new_user, commit) ==
    IF commit # "ok"
    THEN [users |-> db, raised |-> commit, logged |-> commit]
    ELSE IF EmailTaken(db, new_user.email)
         THEN [users |-> db, raised |-> "none", logged |-> "IntegrityError"]
         ELSE [users |-> Append(db, new_user), raised |-> "none", logged |-> "none"]

\* ------------------------------------------------------------------ state
VARIABLES
    API_KEYS,     \* st.secrets["openai_api_keys"]["keys"], fixed for the run
    file,         \* api_key_index.txt
    users,        \* rows of the users table, in insertion order
    messages,     \* rows written by save_message, per session_id
    results,      \* rows written by save_result, per session_id
    pc,           \* where each session's script run stands
    buf,          \* the bytes f.read() of line 46 has read so far
    room,         \* the size of the buffer f.read() reads into
    idx,          \* get_next_api_key's local index (0 outside a call)
    api_key,      \* st.session_state.api_key (NoKey: not in session_state)
    page,         \* st.session_state.page ("none": not in session_state)
    user_name,    \* st.session_state.user_name
    user_added,   \* "user_added" in st.session_state
    memory,       \* st.session_state.memory.chat_memory.messages
    ctx,          \* the prompt handed to safe_request by the running/last call
    attempt,      \* tenacity's attempt_number of the running call
    waits,        \* the waits slept by the running/last call, in order
    last,         \* how the latest attempt of the running call ended, or the
                  \* last script run; NoRun from the start of a call to the
                  \* end of its first attempt
    start,        \* history: the cursor file at Init
    handed,       \* history: the keys returned by get_next_api_key, in order
    raced,        \* history: a call read the cursor while another was mid-call
    submits,      \* history: chat prompts submitted so far
    failed,       \* history: chat turns whose call failed so far
    retries       \* history: evaluations started again by the user so far

shared == <<API_KEYS, file, users, messages, results>>

rotor == <<buf, room, idx, api_key, start, handed, raced>>

session == <<page, user_name, user_added, memory>>

call == <<ctx, attempt, waits>>

vars == <<shared, rotor, session, call, pc, last, submits, failed, retries>>

AllKeys == <<"A", "B", "C", "D", "E", "F", "G", "H", "I", "J", "K", "L", "M">>

KeyLists == {SubSeq(AllKeys, 1, n) : n \in (0..MaxKeys) \cup {LongKeys}}

\* 4300 zeros and a 1: one digit more than int() takes
LongCursor == [i \in 1..(MaxStrDigits + 1) |-> IF i <= MaxStrDigits THEN "0" ELSE "1"]

StartTexts ==
    {<<"0">>, <<"1">>, <<"2">>, <<"9">>, <<"-", "1">>, <<"-", "9">>, <<"x">>, <<>>,
     <<" ", "1", "\n">>, <<"1", "_", "0">>, <<"0", "_", "1">>, <<"\f", "1", "\r">>,
     <<"1", NBSP>>, LongCursor}

StartFiles == {NoFile} \cup {FileOf(t) : t \in StartTexts}

NameInputs == {<<>>, <<" ">>, <<"1">>, <<"1", NBSP>>, <<"2">>}

\* Names typed in the one session that Spec follows: nothing, and a name
\* that strip() changes.
SessionNames == {<<>>, <<"1", NBSP>>}

NoRun ==
    [run |-> "none", status |-> "none", attempts |-> 0, cause |-> "none",
     sink |-> "none"]

InitWith(keys, f) ==
    /\ API_KEYS = keys
    /\ file = f
    /\ start = f
    /\ users = <<>>
    /\ messages = [s \in Sessions |-> <<>>]
    /\ results = [s \in Sessions |-> <<>>]
    /\ pc = [s \in Sessions |-> "new"]
    /\ buf = [s \in Sessions |-> <<>>]
    /\ room = [s \in Sessions |-> 0]
    /\ idx = [s \in Sessions |-> 0]
    /\ api_key = [s \in Sessions |-> NoKey]
    /\ page = [s \in Sessions |-> "none"]
    /\ user_name = [s \in Sessions |-> <<>>]
    /\ user_added = [s \in Sessions |-> FALSE]
    /\ memory = [s \in Sessions |-> <<>>]
    /\ ctx = [s \in Sessions |-> <<>>]
    /\ attempt = [s \in Sessions |-> 0]
    /\ waits = [s \in Sessions |-> <<>>]
    /\ last = [s \in Sessions |-> NoRun]
    /\ handed = <<>>
    /\ raced = FALSE
    /\ submits = 0
    /\ failed = 0
    /\ retries = 0

\* -------------------------------------------------- session start (73-183)
\* How a script run ended: the page function, the way safe_request ended
\* (or the page's own status), the attempts made, the exception or value
\* behind it, and what the save calls that followed did.
EndedSaving(run, status, attempts, cause, sink) ==
    [run |-> run, status |-> status, attempts |-> attempts, cause |-> cause,
     sink |-> sink]

Ended(run, status, attempts, cause) == EndedSaving(run, status, attempts, cause, "none")

\* A call of get_next_api_key is between its first read and its write.
MidCall(t) == pc[t] \in {"reading", "keyread", "keyopen"}

\* First script run of a session, lines 73-74 and 43-46: "api_key" is not in
\* session_state, get_next_api_key opens the cursor file and f.read() takes
\* its size for the read buffer.  A missing file (FileNotFoundError) ends
\* the read with index 0.
KeyRead(s) ==
    /\ pc[s] = "new"
    /\ IF file.exists
       THEN /\ room' = [room EXCEPT ![s] = BufferSize(file)]
            /\ pc' = [pc EXCEPT ![s] = "reading"]
            /\ UNCHANGED idx
       ELSE /\ idx' = [idx EXCEPT ![s] = ReadIndex(file)]
            /\ pc' = [pc EXCEPT ![s] = "keyread"]
            /\ UNCHANGED room
    /\ raced' = (raced \/ \E t \in Sessions \ {s} : MidCall(t))
    /\ UNCHANGED <<shared, buf, api_key, start, handed, session, call, last,
                   submits, failed, retries>>

\* Line 46, one read of f.read(): a piece is read from the file as it is
\* now.  An empty piece ends the read, int() is applied to what was read
\* (lines 46-48) and the buffer is dropped; otherwise the piece is added and
\* the read continues.
KeyReadMore(s) ==
    /\ pc[s] = "reading"
    /\ LET bufsize == RoomAt(room[s], Len(buf[s]))
           piece == PieceAt(file, Len(buf[s]), bufsize - Len(buf[s]))
       IN  IF piece = <<>>
           THEN /\ idx' = [idx EXCEPT ![s] = ReadBytes(buf[s])]
                /\ pc' = [pc EXCEPT ![s] = "keyread"]
                /\ buf' = [buf EXCEPT ![s] = <<>>]
                /\ room' = [room EXCEPT ![s] = 0]
           ELSE /\ buf' = [buf EXCEPT ![s] = buf[s] \o piece]
                /\ room' = [room EXCEPT ![s] = bufsize]
                /\ UNCHANGED <<idx, pc>>
    /\ UNCHANGED <<shared, api_key, start, handed, raced, session, call, last,
                   submits, failed, retries>>

\* Lines 51-57: the key is selected, the next index computed and the cursor
\* file opened for writing, which empties it; nothing is in it until the
\* write below.
KeyOpen(s) ==
    LET r == KeyStep(API_KEYS, idx[s], file)
    IN  /\ pc[s] = "keyread"
        /\ r.raised = "none"
        /\ file' = Truncated
        /\ pc' = [pc EXCEPT ![s] = "keyopen"]
        /\ UNCHANGED <<API_KEYS, users, messages, results, rotor, session, call,
                       last, submits, failed, retries>>

\* Lines 58-60, then 74, 126-183 and 342-346: the next index is written, the
\* key returned and kept in session_state, the chat state initialised and
\* the Home page shown.
KeyWrite(s) ==
    LET r == KeyStep(API_KEYS, idx[s], file)
    IN  /\ pc[s] = "keyopen"
        /\ file' = WriteOver(file, NextIndex(API_KEYS, idx[s]))
        /\ api_key' = [api_key EXCEPT ![s] = r.key]
        /\ handed' = Append(handed, r.key)
        /\ memory' = [memory EXCEPT ![s] = <<>>]
        /\ page' = [page EXCEPT ![s] = "Home"]
        /\ pc' = [pc EXCEPT ![s] = "idle"]
        /\ last' = [last EXCEPT ![s] = Ended("start", "ok", 0, "none")]
        /\ idx' = [idx EXCEPT ![s] = 0]
        /\ UNCHANGED <<API_KEYS, users, messages, results, buf, room, start, raced,
                       user_name, user_added, call, submits, failed, retries>>

\* Line 51 raises IndexError: the script run ends there and session_state
\* still has no api_key, so the next run of the session starts over.
KeyFail(s) ==
    LET r == KeyStep(API_KEYS, idx[s], file)
    IN  /\ pc[s] = "keyread"
        /\ r.raised # "none"
        /\ file' = r.file
        /\ pc' = [pc EXCEPT ![s] = "new"]
        /\ last' = [last EXCEPT ![s] = Ended("start", "raised", 0, r.raised)]
        /\ idx' = [idx EXCEPT ![s] = 0]
        /\ UNCHANGED <<API_KEYS, users, messages, results, buf, room, api_key,
                       start, handed, raced, session, call, submits, failed,
                       retries>>

\* ------------------------------------------------------ page_home (186-217)
HomeAcceptsAny(name) == TRUE

\* line 205: st.button(...) and user_name
HomeAccepts(name) == name # <<>>

\* The start button is clicked with name in the text input.  An accepted
\* click registers the user once per session, stores the name and moves to
\* the Chat page (the rerun renders page_chat with no prompt); an exception
\* out of add_user ends the script run at line 209, on the Home page and
\* with user_added not set.
HomeSubmit(s, name, commit) ==
    /\ pc[s] = "idle"
    /\ page[s] = "Home"
    /\ IF HomeAccepts(name)
       THEN LET added == IF user_added[s]
                         THEN [users |-> users, raised |-> "none", logged |-> "none"]
                         ELSE AddUser(users, User(name, UserEmail(name)), commit)
            IN  /\ users' = added.users
                /\ IF added.raised = "none"
                   THEN /\ user_added' = [user_added EXCEPT ![s] = TRUE]
                        /\ user_name' = [user_name EXCEPT ![s] = name]
                        /\ page' = [page EXCEPT ![s] = "Chat"]
                        /\ last' = [last EXCEPT ![s] = Ended("home", "ok", 0, added.logged)]
                   ELSE /\ last' = [last EXCEPT ![s] =
                                      Ended("home", "raised", 0, added.raised)]
                        /\ UNCHANGED <<user_added, user_name, page>>
       ELSE /\ commit = "ok"
            /\ last' = [last EXCEPT ![s] = Ended("home", "ignored", 0, "none")]
            /\ UNCHANGED <<users, user_added, user_name, page>>
    /\ UNCHANGED <<API_KEYS, file, messages, results, rotor, memory, call, pc,
                   submits, failed, retries>>

\* ------------------------------------------------------ page_chat (222-268)
\* save_message(sender_role, content, sender, recipient, timestamp, email,
\* session_id): one row per call
MessageRow(role, content, sender, recipient, email, session_id) ==
    [role |-> role, content |-> content, sender |-> sender, recipient |-> recipient,
     email |-> email, session_id |-> session_id]

\* What the database does with a save_message or save_result call: the row
\* is stored, or the call raises and nothing is stored.
SinkOutcomes == {"ok", "PersistenceError"}

SaveMessage(rows, row, sink) ==
    IF sink = "ok" THEN [rows |-> Append(rows, row), raised |-> "none"]
    ELSE [rows |-> rows, raised |-> sink]

\* Replies in the memory of s with no row saved for them: turns in which
\* one of the two save_message calls raised.
LostTurns(s) ==
    Cardinality({i \in AIMessages(memory[s]) :
                   \A j \in 1..Len(messages[s]) : messages[s][j].content # i})

RECURSIVE LostTurnsUpTo(_)
LostTurnsUpTo(n) == IF n = 0 THEN 0 ELSE LostTurns(n) + LostTurnsUpTo(n - 1)

\* Lines 237-247: a prompt is submitted; it is appended to the memory, the
\* context is built and safe_request starts its first attempt.
ChatSubmit(s) ==
    /\ pc[s] = "idle"
    /\ page[s] = "Chat"
    /\ submits + retries < MaxSubmits
    /\ LET grown == Append(memory[s], HumanMessage(Len(memory[s]) + 1))
       IN  /\ memory' = [memory EXCEPT ![s] = grown]
           /\ ctx' = [ctx EXCEPT ![s] = ChatContext(grown)]
    /\ attempt' = [attempt EXCEPT ![s] = 1]
    /\ waits' = [waits EXCEPT ![s] = <<>>]
    /\ pc' = [pc EXCEPT ![s] = "chat_call"]
    /\ submits' = submits + 1
    /\ last' = [last EXCEPT ![s] = NoRun]
    /\ UNCHANGED <<shared, rotor, page, user_name, user_added, failed, retries>>

\* The retry wrapper sleeps and starts the next attempt (either page).
BackoffStuck(s, run, st, outcome) ==
    /\ last' = [last EXCEPT ![s] = Ended(run, st.status, attempt[s], outcome)]
    /\ UNCHANGED <<shared, rotor, session, call, pc, submits, failed, retries>>

Backoff(s, run, st, outcome) ==
    /\ attempt' = [attempt EXCEPT ![s] = attempt[s] + 1]
    /\ waits' = [waits EXCEPT ![s] = Append(waits[s], st.wait)]
    /\ last' = [last EXCEPT ![s] = Ended(run, st.status, attempt[s], outcome)]
    /\ UNCHANGED <<shared, rotor, session, ctx, pc, submits, failed, retries>>

MemoryAfterChatCallFallback(status, msgs) == Append(msgs, AIMessage(Len(msgs) + 1))

MemoryAfterChatCallTrimmed(status, msgs) ==
    IF status = "returned"
    THEN LastK(Append(msgs, AIMessage(Len(msgs) + 1)), ContextSize)
    ELSE msgs

\* line 252, reached only when safe_request returned
MemoryAfterChatCall(status, msgs) ==
    IF status = "returned" THEN Append(msgs, AIMessage(Len(msgs) + 1)) ELSE msgs

\* lines 254-255, reached only when safe_request returned; msgs is the
\* memory with the reply appended.  The prompt is saved first; when that
\* call raises, line 255 is not reached and the reply is not saved.
RowsAfterChatCall(status, rows, msgs, name, session_id, first, second) ==
    IF status = "returned"
    THEN LET prompt == msgs[Len(msgs) - 1]
             reply == msgs[Len(msgs)]
             email == UserEmail(name)
             one == SaveMessage(rows,
                      MessageRow("user", prompt.content, name, <<"assistant">>, email,
                                 session_id),
                      first)
         IN  IF one.raised # "none" THEN one
             ELSE SaveMessage(one.rows,
                    MessageRow("assistant", reply.content, <<"assistant">>, name, email,
                               session_id),
                    second)
    ELSE [rows |-> rows, raised |-> "none"]

\* One attempt of the chat call ends in outcome.  Returned: lines 252-257,
\* the reply is appended, both messages are saved and the script reruns;
\* a save_message that raises ends the script run there, the reply staying
\* in the memory.  Raised (248-250): the exception leaves the script run,
\* which ends there.
ChatAttempt(s, outcome, first, second) ==
    /\ pc[s] = "chat_call"
    /\ LET st == InvokerStep(attempt[s], outcome)
       IN  IF st.status = "retry" THEN Backoff(s, "chat", st, outcome)
           ELSE LET grown == MemoryAfterChatCall(st.status, memory[s])
                    saved == RowsAfterChatCall(st.status, messages[s], grown,
                                               user_name[s], s, first, second)
                IN  /\ (st.status # "returned" \/ saved.raised # "none") =>
                          failed + LostTurnsUpTo(NumSessions) < MaxFailedTurns
                    /\ failed' = IF st.status = "returned" THEN failed ELSE failed + 1
                    /\ pc' = [pc EXCEPT ![s] = "idle"]
                    /\ last' = [last EXCEPT ![s] =
                                  EndedSaving("chat", st.status, attempt[s], outcome,
                                    IF st.status # "returned" THEN "none"
                                    ELSE IF saved.raised = "none" THEN "ok"
                                    ELSE saved.raised)]
                    /\ memory' = [memory EXCEPT ![s] = grown]
                    /\ messages' = [messages EXCEPT ![s] = saved.rows]
                    /\ UNCHANGED <<API_KEYS, file, users, results, rotor, page,
                                   user_name, user_added, call, submits, retries>>

EndButtonShownAtContext(msgs) == Len(msgs) >= ContextSize

\* line 265: the end button is drawn
EndButtonShown(msgs) == Len(msgs) >= EndThreshold

\* A script run that ended with an exception: out of safe_request, or out
\* of a save call after it.
RunRaised(l) == l.status \in {"raised", "RetryError"} \/ l.sink = "PersistenceError"

\* The last script run of the session went through page_chat down to
\* line 265: every run of the Chat page does, except the one in which the
\* chat call failed, which left page_chat at line 250, and the one in which
\* a save_message raised, which left it at line 254 or 255.
ReachedEnd(l) == ~(l.run = "chat" /\ RunRaised(l))

\* Lines 265-268, then the rerun into page_result (275-314): the evaluation
\* prompt is built from the whole memory and safe_request starts.
EndChat(s) ==
    /\ pc[s] = "idle"
    /\ page[s] = "Chat"
    /\ ReachedEnd(last[s])
    /\ EndButtonShown(memory[s])
    /\ page' = [page EXCEPT ![s] = "Result"]
    /\ ctx' = [ctx EXCEPT ![s] = EvaluationPrompt(memory[s])]
    /\ attempt' = [attempt EXCEPT ![s] = 1]
    /\ waits' = [waits EXCEPT ![s] = <<>>]
    /\ pc' = [pc EXCEPT ![s] = "result_call"]
    /\ last' = [last EXCEPT ![s] = NoRun]
    /\ UNCHANGED <<shared, rotor, user_name, user_added, memory, submits,
                   failed, retries>>

\* ---------------------------------------------------- page_result (272-340)
\* save_result(feedback, timestamp, email, session_id): one row per call
ResultRow(content, email, session_id) ==
    [content |-> content, email |-> email, session_id |-> session_id]

SaveResult(rows, row, sink) ==
    IF sink = "ok" THEN [rows |-> Append(rows, row), raised |-> "none"]
    ELSE [rows |-> rows, raised |-> sink]

\* One attempt of the evaluation call ends in outcome.  Returned: lines
\* 320-323, the feedback is shown and saved.  Raised, by safe_request or by
\* save_result: lines 337-340, the error and the retry button are shown; in
\* the run that a click on that button started, st.button is True, so line
\* 340 reruns the script and page_result starts a new call at once.
ResultAttempt(s, outcome, sink) ==
    /\ pc[s] \in {"result_call", "retry_call"}
    /\ LET st == InvokerStep(attempt[s], outcome)
       IN  IF st.status = "retry" THEN Backoff(s, "result", st, outcome)
           ELSE LET saved == IF st.status = "returned"
                             THEN SaveResult(results[s],
                                    ResultRow(Len(ctx[s]), UserEmail(user_name[s]), s),
                                    sink)
                             ELSE [rows |-> results[s], raised |-> "none"]
                    ended == EndedSaving("result", st.status, attempt[s], outcome,
                               IF st.status # "returned" THEN "none"
                               ELSE IF saved.raised = "none" THEN "ok"
                               ELSE saved.raised)
                IN  /\ last' = [last EXCEPT ![s] = ended]
                    /\ results' = [results EXCEPT ![s] = saved.rows]
                    /\ IF RunRaised(ended) /\ pc[s] = "retry_call"
                       THEN /\ pc' = [pc EXCEPT ![s] = "result_call"]
                            /\ ctx' = [ctx EXCEPT ![s] = EvaluationPrompt(memory[s])]
                            /\ attempt' = [attempt EXCEPT ![s] = 1]
                            /\ waits' = [waits EXCEPT ![s] = <<>>]
                       ELSE /\ pc' = [pc EXCEPT ![s] = "idle"]
                            /\ UNCHANGED call
                    /\ UNCHANGED <<API_KEYS, file, users, messages, rotor, session,
                                   submits, failed, retries>>

\* lines 338-339: the retry button exists after a run of page_result that
\* ended in the except branch
RetryButtonShown(l) == l.run = "result" /\ RunRaised(l)

\* The retry button is clicked: the script runs again and page_result
\* starts a call (lines 275-314).
RetryClick(s) ==
    /\ pc[s] = "idle"
    /\ page[s] = "Result"
    /\ RetryButtonShown(last[s])
    /\ submits + retries < MaxSubmits
    /\ ctx' = [ctx EXCEPT ![s] = EvaluationPrompt(memory[s])]
    /\ attempt' = [attempt EXCEPT ![s] = 1]
    /\ waits' = [waits EXCEPT ![s] = <<>>]
    /\ pc' = [pc EXCEPT ![s] = "retry_call"]
    /\ retries' = retries + 1
    /\ last' = [last EXCEPT ![s] = NoRun]
    /\ UNCHANGED <<shared, rotor, session, submits, failed>>

\* ------------------------------------------------------- routing (342-350)
\* The user has Streamlit run the script again without touching a widget.
\* Home: nothing is submitted.  Chat: no prompt, page_chat is drawn down to
\* line 265.  Result: page_result builds the request and calls again
\* (lines 275-314); no button was clicked, so a failure is not rerun.
Rerun(s) ==
    /\ pc[s] = "idle"
    /\ page[s] \in {"Home", "Chat", "Result"}
    /\ IF page[s] = "Result"
       THEN /\ submits + retries < MaxSubmits
            /\ ctx' = [ctx EXCEPT ![s] = EvaluationPrompt(memory[s])]
            /\ attempt' = [attempt EXCEPT ![s] = 1]
            /\ waits' = [waits EXCEPT ![s] = <<>>]
            /\ pc' = [pc EXCEPT ![s] = "result_call"]
            /\ retries' = retries + 1
            /\ last' = [last EXCEPT ![s] = NoRun]
       ELSE /\ last' = [last EXCEPT ![s] =
                          IF page[s] = "Home" THEN Ended("home", "ignored", 0, "none")
                          ELSE Ended("chat", "drawn", 0, "none")]
            /\ attempt' = [attempt EXCEPT ![s] = 0]
            /\ waits' = [waits EXCEPT ![s] = <<>>]
            /\ UNCHANGED <<ctx, pc, retries>>
    /\ UNCHANGED <<shared, rotor, session, submits, failed>>

\* --------------------------------------------------------- specifications
StartNext ==
    \E s \in Sessions :
        KeyRead(s) \/ KeyReadMore(s) \/ KeyOpen(s) \/ KeyWrite(s) \/ KeyFail(s)

\* Session starts only, over every credential list and starting cursor file;
\* the cursor of 4301 digits is tried with the list of two keys.
RotateInit ==
    \E keys \in KeyLists, f \in StartFiles :
        /\ f = FileOf(LongCursor) => Len(keys) = 2
        /\ InitWith(keys, f)

SpecRotate == RotateInit /\ [][StartNext]_vars

\* The pages do not depend on the cursor file: the sessions start from a
\* first run ever (no file) or from a corrupt cursor.
Init == \E f \in {NoFile, FileOf(<<"9">>)} : InitWith(<<"A", "B">>, f)

\* Sessions start and pass the Home page.
IntakeNext ==
    \/ StartNext
    \/ \E s \in Sessions, name \in NameInputs, commit \in CommitOutcomes :
          HomeSubmit(s, name, commit)

SpecIntake == Init /\ [][IntakeNext]_vars

\* What the two save_message calls of one turn may do, the sink answering
\* from sinks: the second is only made when the first returned.
SavePairs(sinks) == {p \in sinks \X sinks : p[1] = "ok" \/ p[2] = "ok"}

\* Everything one session can do, from its first script run on, with a
\* database that answers the save calls from sinks.
SessionNext(s, sinks) ==
    \/ KeyRead(s)
    \/ KeyReadMore(s)
    \/ KeyOpen(s)
    \/ KeyWrite(s)
    \/ KeyFail(s)
    \/ \E name \in SessionNames, commit \in CommitOutcomes : HomeSubmit(s, name, commit)
    \/ ChatSubmit(s)
    \/ \E outcome \in Outcomes, p \in SavePairs(sinks) :
          ChatAttempt(s, outcome, p[1], p[2])
    \/ EndChat(s)
    \/ \E outcome \in Outcomes, sink \in sinks : ResultAttempt(s, outcome, sink)
    \/ RetryClick(s)
    \/ Rerun(s)

\* One session followed through its whole life.  Sessions share only the
\* cursor file and the tables; SpecRotate and SpecIntake cover them together.
Next == SessionNext(1, SinkOutcomes)

Spec == Init /\ [][Next]_vars

\* The same with a database that stores every row: whether a call of
\* safe_request ends does not depend on the save calls after it.
LiveNext == SessionNext(1, {"ok"})

\* An attempt is a blocking call followed, when it is retried, by a sleep of
\* at most WaitMax seconds (lines 24-26, 36): the remote call returns or
\* raises and the sleep ends, so an attempt that is under way is completed.
\* Nothing is assumed about what the user does.
Fairness ==
    /\ WF_vars(\E outcome \in Outcomes, first, second \in SinkOutcomes :
                  ChatAttempt(1, outcome, first, second))
    /\ WF_vars(\E outcome \in Outcomes, sink \in SinkOutcomes :
                  ResultAttempt(1, outcome, sink))

SpecLive == Init /\ [][LiveNext]_vars /\ Fairness

\* ----------------------------------------------------------------- claims
StartsAtZero ==
    \/ ~start.exists
    \/ IntParse(start.text) = [ok |-> TRUE, val |-> 0]

\* A call has opened the cursor file for writing and not yet written it.
Writing == \E s \in Sessions : pc[s] = "keyopen"

\* C1: when the calls of get_next_api_key do not interleave and the cursor
\* file starts absent or holding 0, over a list of L >= 1 keys the i-th call
\* (from 0) returns list[i mod L] and leaves the file holding (i+1) mod L.
C1_Rotation ==
    (~raced /\ StartsAtZero /\ Len(API_KEYS) >= 1) =>
        /\ \A i \in 1..Len(handed) :
              handed[i] = API_KEYS[((i - 1) % Len(API_KEYS)) + 1]
        /\ (Len(handed) >= 1 /\ ~Writing) =>
              /\ file.exists
              /\ IntParse(file.text) = [ok |-> TRUE, val |-> Len(handed) % Len(API_KEYS)]
              /\ file.text = IntStr(Len(handed) % Len(API_KEYS))
        /\ \A s \in Sessions : last[s].status # "raised"

\* Three sequential calls over [A, B]: A, B, then A again, cursor back at 1.
C1_Witness ==
    /\ ~raced
    /\ StartsAtZero
    /\ API_KEYS = <<"A", "B">>
    /\ handed = <<"A", "B", "A">>
    /\ file.text = <<"1">>

\* C2: a call that succeeds on its fifth attempt has waited 5, 10, 20 and
\* 30 seconds, 65 in all.  The code waits 5, 5, 8 and 16 seconds, 34 in all:
\* wait_exponential(multiplier=2, min=5, max=30) starts at 2 and uses 5 as
\* the least wait.
C2_Original ==
    \A s \in Sessions :
        (pc[s] = "idle" /\ last[s].status = "returned" /\ last[s].attempts = 5) =>
            /\ waits[s] = <<5, 10, 20, 30>>
            /\ SumSeq(waits[s]) = 65

InCall(s) == pc[s] \in {"chat_call", "result_call", "retry_call"}

\* The call of s ends in this step: the script run is over, or (an
\* exception in the run started by the retry button) the script reruns into
\* a new call.
CallEnds(s) ==
    \/ pc'[s] = "idle" /\ attempt'[s] = attempt[s] /\ waits'[s] = waits[s]
    \/ /\ pc[s] = "retry_call"
       /\ pc'[s] = "result_call"
       /\ RunRaised(last'[s])
       /\ attempt'[s] = 1
       /\ waits'[s] = <<>>

AttemptStep(s) == InCall(s) /\ (pc'[s] # pc[s] \/ attempt'[s] # attempt[s])

\* C3: a call makes at most 5 attempts; another attempt follows only a
\* RateLimitError or APIError; a success ends the call with the value; any
\* other exception ends it at once; a fifth retried failure ends it with a
\* failure carrying that last exception.
C3_RetryBound ==
    [][\A s \in Sessions : AttemptStep(s) =>
          LET o == last'[s].cause
              n == attempt[s]
          IN  /\ n \in 1..5
              /\ last'[s].attempts = n
              /\ o \in Outcomes
              /\ o = "Success" =>
                    /\ CallEnds(s)
                    /\ last'[s].status = "returned"
                    /\ pc'[s] = "idle" \/ last'[s].sink = "PersistenceError"
              /\ o = "Other" => CallEnds(s) /\ last'[s].status = "raised"
              /\ (o \in {"RateLimitError", "APIError"} /\ n < 5) =>
                    /\ pc'[s] = pc[s]
                    /\ attempt'[s] = n + 1
                    /\ last'[s].status = "retry"
              /\ (o \in {"RateLimitError", "APIError"} /\ n = 5) =>
                    CallEnds(s) /\ last'[s].status = "RetryError"
              /\ last'[s].status = "retry" => o \in {"RateLimitError", "APIError"}]_vars

C3_Witness ==
    \E s \in Sessions :
        /\ pc[s] = "idle"
        /\ last[s].status = "RetryError"
        /\ last[s].attempts = 5
        /\ last[s].cause = "APIError"

Phase(p) ==
    IF p \in {"none", "Home"} THEN "Intake"
    ELSE IF p = "Chat" THEN "Dialogue" ELSE "Debrief"

\* C4: a session's phase changes only from Intake to Dialogue, by a Home
\* submission with a non-empty name, or from Dialogue to Debrief.
C4_Lifecycle ==
    [][\A s \in Sessions : page'[s] # page[s] =>
          \/ page[s] = "none" /\ page'[s] = "Home"
          \/ /\ page[s] = "Home"
             /\ page'[s] = "Chat"
             /\ user_name'[s] # <<>>
          \/ page[s] = "Chat" /\ page'[s] = "Result"]_vars

\* A session in Debrief after a turn that went wrong (the call failed or a
\* save_message raised) and an evaluation started again.
C4_Witness ==
    \E s \in Sessions :
        /\ page[s] = "Result"
        /\ Phase(page[s]) = "Debrief"
        /\ failed + LostTurns(s) > 0
        /\ retries > 0
        /\ pc[s] = "idle"

\* C5 as stated: while a session waits on the Chat page the move to Result
\* is enabled exactly when its memory holds at least 20 messages, so every
\* session on the Result page holds at least 20.
C5_Gate ==
    \A s \in Sessions :
        /\ (pc[s] = "idle" /\ page[s] = "Chat") =>
              (ENABLED EndChat(s) <=> Len(memory[s]) >= 20)
        /\ page[s] # "Chat" => ~ENABLED EndChat(s)
        /\ page[s] = "Result" => Len(memory[s]) >= 20

\* C6: the prompt of a chat call is the system message followed by the last
\* min(10, M) messages of the memory of length M, in order, the last being
\* the prompt just appended; it has at most 11 messages, and building it
\* changes the memory by that one append only.
C6_Context ==
    [][\A s \in Sessions : (pc[s] = "idle" /\ pc'[s] = "chat_call") =>
          LET M == Len(memory'[s])
              k == IF M < 10 THEN M ELSE 10
          IN  /\ Len(ctx'[s]) = k + 1
              /\ Len(ctx'[s]) <= 11
              /\ ctx'[s][1].role = "system"
              /\ \A j \in 1..k : ctx'[s][1 + j] = memory'[s][M - k + j]
              /\ ctx'[s][k + 1].role = "human"
              /\ M = Len(memory[s]) + 1
              /\ \A i \in 1..Len(memory[s]) : memory'[s][i] = memory[s][i]
              /\ \A i \in 1..M : memory'[s][i].content = i]_vars

\* A call whose memory is longer than the context.
C6_Witness ==
    \E s \in Sessions :
        /\ pc[s] = "chat_call"
        /\ Len(memory[s]) = 13
        /\ Len(ctx[s]) = 11
        /\ ctx[s][2] = memory[s][4]

HomeDone(s) ==
    /\ page[s] = "Home"
    /\ page'[s] = "Chat" \/ (last'[s] # last[s] /\ last'[s].status = "raised")

\* C7: an accepted Home submission whose e-mail is already in the users
\* table leaves the table as it is and still reaches the Chat page; one with
\* a new e-mail adds exactly that one row; no e-mail is ever stored twice.
\* add_user raises only when the commit fails for a reason of its own, never
\* for a stored e-mail, and then the table and the page are unchanged.
C7_Idempotent ==
    /\ [](\A i, j \in 1..Len(users) : users[i].email = users[j].email => i = j)
    /\ [][\A s \in Sessions : HomeDone(s) =>
            IF last'[s].status = "raised"
            THEN /\ last'[s].cause = "OperationalError"
                 /\ users' = users
                 /\ page'[s] = "Home"
                 /\ user_added'[s] = user_added[s]
            ELSE LET name == user_name'[s]
                     email == UserEmail(name)
                 IN  /\ page'[s] = "Chat"
                     /\ last'[s].status = "ok"
                     /\ IF EmailTaken(users, email)
                        THEN users' = users /\ last'[s].cause = "IntegrityError"
                        ELSE /\ users' = Append(users, [name |-> name, email |-> email])
                             /\ last'[s].cause = "none"]_vars

\* Two sessions registered "1" and "1" + no-break space: the same e-mail, one row.
C7_Witness ==
    \E s, t \in Sessions :
        /\ page[s] = "Chat"
        /\ page[t] = "Chat"
        /\ user_name[s] = <<"1">>
        /\ user_name[t] = <<"1", NBSP>>
        /\ Len(users) = 1
        /\ last[t].cause = "IntegrityError"

\* C8: the waits of one call never decrease and each lies in 5..30.
C8_Monotone ==
    \A s \in Sessions :
        \A i \in 1..Len(waits[s]) :
            /\ waits[s][i] >= 5
            /\ waits[s][i] <= 30
            /\ i > 1 => waits[s][i] >= waits[s][i - 1]

C8_Witness ==
    \E s \in Sessions : Len(waits[s]) = 4 /\ waits[s][4] > waits[s][1]

FailedTurn(s) ==
    /\ pc[s] = "idle"
    /\ last[s].run = "chat"
    /\ last[s].status \in {"raised", "RetryError"}

\* C9: after a chat call that failed the session is still on the Chat page
\* with the exception raised, the memory ends with the unanswered prompt, no
\* row was saved for it (the rows are those of answered prompts: two for
\* each, unless a save_message raised), and another prompt can be submitted.
C9_FailedTurn ==
    \A s \in Sessions : FailedTurn(s) =>
        /\ page[s] = "Chat"
        /\ last[s].cause # "Success"
        /\ memory[s] # <<>>
        /\ memory[s][Len(memory[s])] = [role |-> "human", content |-> Len(memory[s])]
        /\ \A i \in 1..Len(messages[s]) : messages[s][i].content # Len(memory[s])
        /\ Len(messages[s]) <= 2 * Cardinality(AIMessages(memory[s]))
        /\ LostTurns(s) = 0 =>
              Len(messages[s]) = 2 * Cardinality(AIMessages(memory[s]))
        /\ submits + retries < MaxSubmits => ENABLED ChatSubmit(s)

\* A failed turn followed by a prompt that was answered.
C9_Witness ==
    \E s \in Sessions :
        /\ failed > 0
        /\ pc[s] = "idle"
        /\ page[s] = "Chat"
        /\ Len(memory[s]) = 3
        /\ memory[s][1].role = "human"
        /\ memory[s][2].role = "human"
        /\ memory[s][3].role = "ai"

\* C10: with an empty key list every call of get_next_api_key raises, no
\* session gets a key and the cursor file is never written.
C10_EmptyList ==
    API_KEYS = <<>> =>
        /\ file = start
        /\ handed = <<>>
        /\ GetNextApiKey(API_KEYS, file).raised # "none"
        /\ \A s \in Sessions :
              /\ api_key[s] = NoKey
              /\ pc[s] # "idle"
              /\ last[s].run = "start" => last[s].status = "raised"

\* A call over the empty list has raised.
C10_Witness ==
    /\ API_KEYS = <<>>
    /\ \E s \in Sessions : last[s] = Ended("start", "raised", 0, "IndexError")

\* The cursor a file stands for, read off its text.
CursorOf(f) ==
    IF f.exists /\ IntParse(f.text).ok THEN IntParse(f.text).val ELSE 0

\* Two sessions hold the same key although only two keys were handed out, and
\* the cursor is one step past the starting one.
LostUpdate ==
    /\ Len(handed) = 2
    /\ handed[1] = handed[2]
    /\ \E s, t \in Sessions : s # t /\ api_key[s] # NoKey /\ api_key[s] = api_key[t]
    /\ CursorOf(file) = (CursorOf(start) + 1) % Len(API_KEYS)

\* C11: get_next_api_key reads and writes the cursor file in separate steps
\* with no lock; as long as no call reads while another is between its read
\* and its write, two keys handed out over a list of two or more keys differ
\* and the lost update is unreachable.  (The witness reaches it with
\* interleaved calls.)
C11_NoLostUpdateUnlessRaced ==
    (~raced /\ Len(API_KEYS) >= 2) =>
        /\ ~LostUpdate
        /\ \A i \in 1..(Len(handed) - 1) : handed[i] # handed[i + 1]
        /\ Cardinality({s \in Sessions : MidCall(s)}) <= 1

\* Both sessions read before either wrote: the same key twice, cursor moved
\* by one step only.
C11_Witness ==
    /\ raced
    /\ Len(API_KEYS) >= 2
    /\ LostUpdate
    /\ API_KEYS = <<"A", "B">>
    /\ handed = <<"A", "A">>
    /\ file.text = <<"1">>

\* C13: once a call of get_next_api_key has written the cursor file, the
\* file holds an integer c with 0 <= c < len(API_KEYS), whatever the file
\* held at the start and however the calls interleave.  Interleaved calls
\* over a list of eleven keys break it: the write of line 58 starts at
\* position 0 and keeps the tail of a longer text another call wrote after
\* this call's open, so the file can end up holding "20".
C13_CursorRange ==
    /\ []((handed # <<>> /\ ~Writing) =>
            /\ file.exists
            /\ IntParse(file.text).ok
            /\ IntParse(file.text).val >= 0
            /\ IntParse(file.text).val < Len(API_KEYS))
    /\ [][file' # file =>
            /\ Len(API_KEYS) >= 1
            /\ \/ file' = Truncated /\ handed' = handed
               \/ /\ Len(handed') = Len(handed) + 1
                  /\ IntParse(file'.text).ok
                  /\ IntParse(file'.text).val \in 0..(Len(API_KEYS) - 1)]_vars

StartAbsentOrCorrupt ==
    \/ ~start.exists
    \/ ~IntParse(start.text).ok
    \/ IntParse(start.text).val < 0
    \/ IntParse(start.text).val >= Len(API_KEYS)

\* C14 as stated: when the cursor file is missing at the start, or holds no
\* integer, or an integer outside 0..len(API_KEYS)-1, no call raises, the
\* first key handed out is API_KEYS[0] and the first write is 1 mod len.
C14_Default ==
    (Len(API_KEYS) >= 1 /\ StartAbsentOrCorrupt) =>
        /\ \A s \in Sessions : last[s].status # "raised"
        /\ handed # <<>> => handed[1] = API_KEYS[1]
        /\ (Len(handed) = 1 /\ ~Writing) => file.text = IntStr(1 % Len(API_KEYS))

KeyReadStep(s) == pc[s] = "new" /\ pc'[s] \in {"reading", "keyread"}

\* C15 as stated: a session calls get_next_api_key at most once, has its key
\* before it reaches the Chat page, and never changes it afterwards.
C15_OneCredential ==
    [][\A s \in Sessions :
          /\ KeyReadStep(s) => last[s].run = "none"
          /\ api_key[s] # NoKey => api_key'[s] = api_key[s]
          /\ page'[s] \in {"Chat", "Result"} => api_key'[s] # NoKey]_vars

HumanMessages(msgs) == {i \in 1..Len(msgs) : msgs[i].role = "human"}

\* A prompt that was answered: a human message directly followed by a reply.
Exchanges(msgs) ==
    {i \in 1..(Len(msgs) - 1) : msgs[i].role = "human" /\ msgs[i + 1].role = "ai"}

\* C12 as stated: a session on the Result page holds at least 10 answered
\* prompts.
C12_Original ==
    \A s \in Sessions :
        page[s] = "Result" => Cardinality(Exchanges(memory[s])) >= 10

\* C12 amended: a session on the Result page holds at least 20 messages, at
\* least 10 of them prompts of the user; twice the answered prompts plus the
\* failed turns is at least 20, so there are at least 10 answered prompts
\* when at most one turn failed and possibly fewer otherwise.
C12_Pairs ==
    \A s \in Sessions :
        page[s] = "Result" =>
            /\ Len(memory[s]) >= 20
            /\ Cardinality(HumanMessages(memory[s])) >= 10
            /\ 2 * Cardinality(Exchanges(memory[s])) + failed >= 20
            /\ failed <= 1 => Cardinality(Exchanges(memory[s])) >= 10

\* Debrief entered with 11 prompts of which only 9 were answered.
C12_Witness ==
    \E s \in Sessions :
        /\ page[s] = "Result"
        /\ Cardinality(HumanMessages(memory[s])) = 11
        /\ Cardinality(Exchanges(memory[s])) = 9
        /\ failed = 2

ChatReturned(s) ==
    pc[s] = "chat_call" /\ pc'[s] = "idle" /\ last'[s].status = "returned"

\* C16: a chat call that returns appends the reply after the prompt and
\* then issues save_message once for the prompt and once for the reply, in
\* that order, the page staying Chat; at all times the saved rows are the
\* answered prompts and their replies, each once, in the order of the
\* memory.  A save_message that raises for the prompt breaks it: line 255 is
\* not reached and no save_message is issued for the reply.
C16_Persist ==
    /\ [](\A s \in Sessions :
            /\ Len(messages[s]) = 2 * Cardinality(AIMessages(memory[s]))
            /\ \A i \in 1..Len(messages[s]) :
                  LET row == messages[s][i]
                  IN  /\ row.content \in 1..Len(memory[s])
                      /\ row.session_id = s
                      /\ i > 1 => row.content > messages[s][i - 1].content
                      /\ row.role = "user" =>
                            /\ memory[s][row.content].role = "human"
                            /\ row.content < Len(memory[s])
                            /\ memory[s][row.content + 1].role = "ai"
                            /\ i < Len(messages[s])
                            /\ messages[s][i + 1].role = "assistant"
                            /\ messages[s][i + 1].content = row.content + 1
                      /\ row.role = "assistant" =>
                            /\ memory[s][row.content].role = "ai"
                            /\ i > 1
                            /\ messages[s][i - 1].role = "user"
                      /\ row.role \in {"user", "assistant"})
    /\ [][\A s \in Sessions :
            /\ ChatReturned(s) =>
                  LET n == Len(memory[s])
                  IN  /\ memory[s][n].role = "human"
                      /\ memory'[s] = Append(memory[s], [role |-> "ai", content |-> n + 1])
                      /\ Len(messages'[s]) = Len(messages[s]) + 2
                      /\ SubSeq(messages'[s], 1, Len(messages[s])) = messages[s]
                      /\ messages'[s][Len(messages[s]) + 1].role = "user"
                      /\ messages'[s][Len(messages[s]) + 1].content = n
                      /\ messages'[s][Len(messages[s]) + 2].role = "assistant"
                      /\ messages'[s][Len(messages[s]) + 2].content = n + 1
                      /\ page[s] = "Chat"
                      /\ page'[s] = "Chat"
            /\ messages'[s] # messages[s] => ChatReturned(s)]_vars

\* ---------------------------------------------------------------- C17
\* The evaluation request holds the rubric and then one line per turn of the
\* window, every turn, in the window's order.
WholeWindowRequest(request, msgs) ==
    /\ Len(request) = Len(msgs) + 1
    /\ request[1].role = "rubric"
    /\ \A i \in 1..Len(msgs) :
          /\ request[i + 1].content = msgs[i].content
          /\ request[i + 1].role = IF msgs[i].role = "human" THEN "Student" ELSE "Patient"

InResultCall(s) == pc[s] \in {"result_call", "retry_call"}

\* A step in which the evaluation call of s ends in failure.
ResultFailed(s) ==
    /\ InResultCall(s)
    /\ last'[s] # last[s]
    /\ last'[s].status \in {"raised", "RetryError"}

\* C17: every evaluation call carries a request built from the whole window
\* in order (not the last 10 turns); a result row is written only in the step
\* in which that call returns, one row; when the call fails the failure is
\* recorded, the page stays Result, the window and both tables are unchanged;
\* and a click on the retry button starts a call with the same request.  A
\* save_result that raises after the call returned writes no row and leaves
\* the page, the window and the retry button the same way.
C17_Debrief ==
    /\ [](\A s \in Sessions : InResultCall(s) => WholeWindowRequest(ctx[s], memory[s]))
    /\ [][\A s \in Sessions :
            /\ results'[s] # results[s] =>
                  /\ InResultCall(s)
                  /\ last'[s].run = "result" /\ last'[s].status = "returned"
                  /\ Len(results'[s]) = Len(results[s]) + 1
                  /\ SubSeq(results'[s], 1, Len(results[s])) = results[s]
            /\ (InResultCall(s) /\ last'[s] # last[s] /\ last'[s].status = "returned") =>
                  IF last'[s].sink = "ok"
                  THEN Len(results'[s]) = Len(results[s]) + 1
                  ELSE /\ results' = results
                       /\ page'[s] = "Result"
                       /\ memory'[s] = memory[s]
                       /\ \/ pc'[s] = "idle" /\ RetryButtonShown(last'[s])
                          \/ pc[s] = "retry_call" /\ InResultCall(s)' /\ ctx'[s] = ctx[s]
            /\ last'[s].sink # "none" => last'[s].status = "returned"
            /\ ResultFailed(s) =>
                  /\ last'[s].run = "result"
                  /\ page'[s] = "Result"
                  /\ memory'[s] = memory[s]
                  /\ messages' = messages
                  /\ results' = results
                  /\ \/ pc'[s] = "idle" /\ RetryButtonShown(last'[s])
                     \/ pc[s] = "retry_call" /\ InResultCall(s)' /\ ctx'[s] = ctx[s]
            /\ pc'[s] = "retry_call" =>
                  /\ pc[s] = "retry_call" \/ RetryButtonShown(last[s])
                  /\ ctx'[s] = ctx[s]
                  /\ memory'[s] = memory[s]
            /\ (retries' # retries /\ pc[s] # pc'[s]) =>
                  /\ InResultCall(s)'
                  /\ ctx'[s] = ctx[s]
                  /\ memory'[s] = memory[s]]_vars

\* After a failed evaluation the retry button was clicked and the call it
\* started, carrying the whole window, is at its last attempt.
C17_Witness ==
    \E s \in Sessions :
        /\ page[s] = "Result"
        /\ pc[s] = "retry_call"
        /\ attempt[s] = MaxAttempts
        /\ results[s] = <<>>
        /\ Len(memory[s]) > ContextSize
        /\ Len(ctx[s]) = Len(memory[s]) + 1

\* ---------------------------------------------------------------- C18
IsPrefix(old, new) ==
    /\ Len(old) <= Len(new)
    /\ \A i \in 1..Len(old) : new[i] = old[i]

\* C18: in every step the memory of a session before the step is a prefix of
\* its memory after the step: no message is removed, moved or changed and the
\* length never decreases, on the Chat page (answered and failed turns) and
\* on the Result page (retries included).
C18_AppendOnly ==
    [][\A s \in Sessions : IsPrefix(memory[s], memory'[s])]_vars

\* A window that grew past the chat context through answered and failed
\* turns, on the Result page after an evaluation that failed.
C18_Witness ==
    \E s \in Sessions :
        /\ page[s] = "Result" /\ pc[s] = "idle"
        /\ failed > 0
        /\ last[s].run = "result"
        /\ last[s].status \in {"raised", "RetryError"}
        /\ Len(memory[s]) = EndThreshold + 1
        /\ memory[s][Len(memory[s])].role = "ai"

\* ---------------------------------------------------------------- C19
\* The call that last ended for s ended in exactly one of the three ways,
\* each with its cause: a value, an exception that is not retried, or the
\* attempts used up on retried exceptions.
Completed(s, run) ==
    /\ pc[s] = "idle"
    /\ last[s].run = run
    /\ \/ last[s].status = "returned" /\ last[s].cause = "Success"
       \/ last[s].status = "raised" /\ last[s].cause = "Other"
       \/ /\ last[s].status = "RetryError"
          /\ last[s].cause \in {"RateLimitError", "APIError"}
          /\ last[s].attempts = MaxAttempts

\* The submitted prompt got its reply appended, or its failure was raised.
TurnEnded(s) ==
    /\ Completed(s, "chat")
    /\ memory[s] # <<>>
    /\ IF last[s].status = "returned"
       THEN memory[s][Len(memory[s])].role = "ai"
       ELSE memory[s][Len(memory[s])].role = "human"

\* C19: every call of safe_request that was started completes, whatever the
\* remote outcomes are, in exactly one of three ways (value, exception that
\* is not retried, attempts used up); so every submitted prompt ends with a
\* reply appended to the memory or with the exception raised, and every
\* evaluation call ends too.
C19_Termination ==
    /\ (pc[1] = "chat_call") ~> TurnEnded(1)
    /\ (pc[1] \in {"result_call", "retry_call"}) ~> Completed(1, "result")

\* A chat call that used all its attempts on retried exceptions and ended.
C19_Witness ==
    /\ pc[1] = "idle"
    /\ page[1] = "Chat"
    /\ last[1].run = "chat"
    /\ last[1].status = "RetryError"
    /\ last[1].attempts = MaxAttempts
    /\ Len(waits[1]) = MaxAttempts - 1

\* ---------------------------------------------------------------- C20
\* The first message is the student's and every reply directly follows a
\* prompt.
WindowShape(msgs) ==
    /\ msgs # <<>> => msgs[1].role = "human"
    /\ \A i \in AIMessages(msgs) : i > 1 /\ msgs[i - 1].role = "human"
    /\ Cardinality(AIMessages(msgs)) <= Cardinality(HumanMessages(msgs))

\* prompts without a reply in the memory of s
Unanswered(s) ==
    Cardinality(HumanMessages(memory[s])) - Cardinality(AIMessages(memory[s]))

RECURSIVE UnansweredUpTo(_)
UnansweredUpTo(n) == IF n = 0 THEN 0 ELSE Unanswered(n) + UnansweredUpTo(n - 1)

CallsUnderWay == Cardinality({s \in Sessions : pc[s] = "chat_call"})

\* C20 as stated: in every state the memory has the shape above and the
\* prompts outnumber the replies by exactly the number of failed turns.
C20_Original ==
    /\ \A s \in Sessions : WindowShape(memory[s])
    /\ UnansweredUpTo(NumSessions) = failed

\* C20: in every state the memory starts with a prompt, every reply directly
\* follows a prompt (so no two replies are adjacent and replies never
\* outnumber prompts), and the prompts outnumber the replies by the number
\* of failed turns, plus one while the call for a submitted prompt is still
\* under way.
C20_Shape ==
    /\ \A s \in Sessions : WindowShape(memory[s])
    /\ UnansweredUpTo(NumSessions) = failed + CallsUnderWay

\* A call under way, already retried, after failed and answered turns.
C20_Witness ==
    \E s \in Sessions :
        /\ pc[s] = "chat_call"
        /\ attempt[s] > 1
        /\ failed = MaxFailedTurns
        /\ Cardinality(AIMessages(memory[s])) >= 2
        /\ Unanswered(s) = failed + 1

====
